---- MODULE Spec2Model ----
(***************************************************************************)
(* "Who Wants to be a Millionaire - English language edition"              *)
(* (src/main.py): the MillionaireGame session object, its question source, *)
(* its persistence, and the game loop of main().                           *)
(*                                                                         *)
(* Texts that the program only stores and compares are TLA+ strings.       *)
(* Texts the program transforms character by character (correct_answer,    *)
(* player_name) are sequences of one-character strings.  A JSON value      *)
(* that may be missing or of another type is a record [kind, val] with     *)
(* kind in {"str", "absent", "other"}.                                     *)
(***************************************************************************)
EXTENDS Integers, Sequences, FiniteSets, TLC

VARIABLES
    pc,             \* position of main(): menu, loop, retry, ask, save, cont, end, exited
    game,           \* the MillionaireGame object bound to `game` in main()
    question_data,  \* the dict bound to `question_data` in main()
    files,          \* the session files of the working directory: name -> record
    user_input,     \* the line bound to `user_input` in main()
    clock,          \* datetime.datetime.now(), in ticks
    op,             \* the operation the last step performed
    ret,            \* the value the last process_answer / load_session returned
    unsaved,        \* a process_answer result not yet passed to save_session
    depth,          \* nesting of generate_question calls in progress
    rounds          \* questions asked for so far in this behaviour

vars == <<pc, game, question_data, user_input, files, clock, op, ret, unsaved, depth, rounds>>

----------------------------------------------------------------------------
(* Bounds of the model. *)

MaxRounds == 2      \* questions main() asks for in one behaviour
MaxClock == 1       \* ticks the clock can advance in one behaviour
TicksPerSecond == 2 \* resolution of the clock: ticks in one second
MaxDepth == 2       \* nested generate_question calls before the interpreter's recursion limit
MaxOptions == 5     \* options in one backend answer

----------------------------------------------------------------------------
(* Constants of the program. *)

MONEY_LADDER ==
    << 0, 100, 200, 300, 500, 1000, 2000, 4000, 8000, 16000,
       32000, 64000, 125000, 250000, 500000, 1000000 >>

\* Python indexes lists from 0.
Ladder(i) == MONEY_LADDER[i + 1]

LastIndex == Len(MONEY_LADDER) - 1

MILESTONES == << 1000, 32000 >>

TOPICS ==
    << "Grammar - Verb Tenses", "Grammar - Prepositions", "Grammar - Articles",
       "Grammar - Pronouns", "Vocabulary - Synonyms", "Vocabulary - Antonyms",
       "Vocabulary - Homophones", "Idioms - Common Expressions",
       "Idioms - Figurative Language", "Slang - Everyday Usage",
       "Pronunciation - Commonly Mispronounced Words", "Punctuation - Correct Usage",
       "Spelling - Commonly Misspelled Words", "Phrasal Verbs - Common Combinations",
       "Word Formation - Prefixes and Suffixes" >>

DefaultTopic == "Grammar - Basic"

DefaultModel == "llama3.2"

----------------------------------------------------------------------------
(* JSON values and character strings. *)

\* A JSON value held as a sequence (of characters, or of one whole text).
Str(s) == [kind |-> "str", val |-> s]
Absent == [kind |-> "absent", val |-> <<>>]
Other == [kind |-> "other", val |-> <<>>]

\* A JSON value held as an atomic text.
Txt(t) == [kind |-> "str", val |-> t]
NoTxt == [kind |-> "absent", val |-> ""]

Range(s) == { s[i] : i \in 1..Len(s) }

\* str.upper() on one character (the characters the model uses).
UpperChar(c) ==
    CASE c = "a" -> "A"
      [] c = "b" -> "B"
      [] c = "c" -> "C"
      [] c = "d" -> "D"
      [] OTHER -> c

Upper(s) == [i \in 1..Len(s) |-> UpperChar(s[i])]

RECURSIVE LStrip(_)
LStrip(s) == IF s # <<>> /\ Head(s) = " " THEN LStrip(Tail(s)) ELSE s

RECURSIVE RStrip(_)
RStrip(s) ==
    IF s # <<>> /\ s[Len(s)] = " " THEN RStrip(SubSeq(s, 1, Len(s) - 1)) ELSE s

\* str.strip()
Strip(s) == RStrip(LStrip(s))

\* str.replace(' ', '_')
ReplaceSpace(s) == [i \in 1..Len(s) |-> IF s[i] = " " THEN "_" ELSE s[i]]

Max(S) == CHOOSE x \in S : \A y \in S : y <= x

Min(S) == CHOOSE x \in S : \A y \in S : x <= y

----------------------------------------------------------------------------
(* MillionaireGame.__init__ *)

\* strftime("%Y%m%d-%H%M%S"): the time of day truncated to whole seconds.
Timestamp(now) == now \div TicksPerSecond

\* f"{player_name.replace(' ', '_')}-{timestamp}.json": the timestamp has a
\* fixed width, so the name is the pair of its two parts.
SessionFile(player_name, timestamp) == << ReplaceSpace(player_name), timestamp >>

MillionaireGame(player_name, model, now) ==
    [ player_name          |-> player_name,
      model                |-> model,
      current_question_num |-> 0,
      current_money        |-> 0,
      game_over            |-> FALSE,
      questions_asked      |-> <<>>,
      used_topics          |-> {},
      used_questions       |-> {},
      fallback_index       |-> 0,
      timestamp            |-> Timestamp(now),
      session_file         |-> SessionFile(player_name, Timestamp(now)) ]

----------------------------------------------------------------------------
(* MillionaireGame.process_answer *)

NoExplanation == << "No explanation provided." >>
UnknownQuestion == "Unknown question"
UnknownTopic == "Unknown topic"

\* correct_answer.upper().strip(), then its first character if longer than one
NormalizeCorrect(s) ==
    LET t == Strip(Upper(s))
    IN  IF Len(t) > 1 THEN << t[1] >> ELSE t

\* The fallback with the milestones scanned in list order: the first one
\* <= money, not the last.
money_to_fall_back_unreversed(money) ==
    LET hits == { i \in 1..Len(MILESTONES) : MILESTONES[i] <= money }
    IN  IF hits = {} THEN 0 ELSE MILESTONES[Min(hits)]

\* for milestone in reversed(MILESTONES): the first one <= money, else 0
money_to_fall_back(money) ==
    LET hits == { i \in 1..Len(MILESTONES) : MILESTONES[i] <= money }
    IN  IF hits = {} THEN 0 ELSE MILESTONES[Max(hits)]

HistoryRecord(num, q, user_answer, correct_answer, explanation, amount) ==
    [ question_num   |-> num,
      question       |-> IF q.question.kind = "str" THEN q.question.val ELSE UnknownQuestion,
      options        |-> q.options,
      user_answer    |-> Upper(user_answer),
      correct_answer |-> correct_answer,
      explanation    |-> explanation,
      topic          |-> q.topic,
      amount_won     |-> amount ]

\* The correct branch with the money read before the question number is
\* advanced.
CorrectBranchStaleMoney(g, user_answer, q, correct_answer) ==
    LET n == g.current_question_num + 1
        g2 == [g EXCEPT !.current_question_num = n,
                        !.current_money = Ladder(g.current_question_num)]
        explanation == IF q.explanation.kind = "str"
                       THEN q.explanation.val ELSE NoExplanation
        rec == HistoryRecord(n, q, user_answer, correct_answer, explanation,
                             g2.current_money)
    IN  [ game |-> [g2 EXCEPT !.questions_asked = Append(@, rec)],
          question_data |-> q, ret |-> TRUE, raised |-> FALSE ]

\* The branch taken when is_correct: lines 380-403.
CorrectBranch(g, user_answer, q, correct_answer) ==
    LET n == g.current_question_num + 1
    IN  IF n > LastIndex
        THEN \* MONEY_LADDER[n] raises IndexError after the increment
             [ game |-> [g EXCEPT !.current_question_num = n],
               question_data |-> q, ret |-> FALSE, raised |-> TRUE ]
        ELSE LET g2 == [g EXCEPT !.current_question_num = n,
                                 !.current_money = Ladder(n)]
             IN  IF q.explanation.kind = "other"
                 THEN \* Fore.WHITE + explanation raises TypeError
                      [ game |-> g2, question_data |-> q, ret |-> FALSE, raised |-> TRUE ]
                 ELSE LET explanation ==
                              IF q.explanation.kind = "absent"
                              THEN NoExplanation ELSE q.explanation.val
                          rec == HistoryRecord(n, q, user_answer, correct_answer,
                                               explanation, g2.current_money)
                      IN  [ game |-> [g2 EXCEPT !.questions_asked = Append(@, rec)],
                            question_data |-> q, ret |-> TRUE, raised |-> FALSE ]

\* The branch taken otherwise: lines 404-436.
IncorrectBranch(g, user_answer, q, correct_answer) ==
    LET fallback == money_to_fall_back(g.current_money)
    IN  IF q.explanation.kind = "other"
        THEN \* Fore.WHITE + explanation raises TypeError before any assignment
             [ game |-> g, question_data |-> q, ret |-> FALSE, raised |-> TRUE ]
        ELSE LET explanation ==
                     IF q.explanation.kind = "absent"
                     THEN NoExplanation ELSE q.explanation.val
                 rec == HistoryRecord(g.current_question_num + 1, q, user_answer,
                                      correct_answer, explanation, fallback)
             IN  [ game |-> [g EXCEPT !.questions_asked = Append(@, rec),
                                      !.current_money = fallback,
                                      !.game_over = TRUE],
                   question_data |-> q, ret |-> FALSE, raised |-> FALSE ]

\* process_answer that rejects a question without correct_answer instead of
\* defaulting it.
process_answer_strict(g, user_answer, q) ==
    IF q.correct_answer.kind # "str"
    THEN [ game |-> g, question_data |-> q, ret |-> FALSE, raised |-> TRUE ]
    ELSE LET correct_answer == NormalizeCorrect(q.correct_answer.val)
             is_correct == Upper(user_answer) = correct_answer
         IN  IF is_correct
             THEN CorrectBranch(g, user_answer, q, correct_answer)
             ELSE IncorrectBranch(g, user_answer, q, correct_answer)

\* process_answer(user_answer, question_data): the session and the question
\* dict after the call, the value returned, and whether the catch-all ran.
process_answer(g, user_answer, q) ==
    LET q1 == IF q.correct_answer.kind = "absent"
              THEN [q EXCEPT !.correct_answer = Str(<< "A" >>)] ELSE q
    IN  IF q1.correct_answer.kind # "str"
        THEN \* .upper() of a value that is no string raises AttributeError
             [ game |-> g, question_data |-> q1, ret |-> FALSE, raised |-> TRUE ]
        ELSE LET correct_answer == NormalizeCorrect(q1.correct_answer.val)
                 is_correct == Upper(user_answer) = correct_answer
             IN  IF is_correct
                 THEN CorrectBranch(g, user_answer, q1, correct_answer)
                 ELSE IncorrectBranch(g, user_answer, q1, correct_answer)

----------------------------------------------------------------------------
(* MillionaireGame._generate_fallback_question *)

BankEntry(question, a, b, c, d, correct, explanation) ==
    [ question |-> question, options |-> << a, b, c, d >>,
      correct_answer |-> correct, explanation |-> explanation ]

fallback_questions ==
    << BankEntry("Which of the following is a correct sentence?",
                 "A. I have been to Paris last year.",
                 "B. I went to Paris last year.",
                 "C. I have went to Paris last year.",
                 "D. I had been going to Paris last year.",
                 "B",
                 "When using a specific time in the past (last year), the simple past tense is correct. 'I went to Paris last year' is grammatically correct."),
       BankEntry("Which word is a synonym for 'happy'?",
                 "A. Sad",
                 "B. Angry",
                 "C. Joyful",
                 "D. Tired",
                 "C",
                 "'Joyful' means full of joy or happiness, making it a synonym for 'happy'."),
       BankEntry("What is the correct spelling?",
                 "A. Accomodate",
                 "B. Acommodate",
                 "C. Accommodate",
                 "D. Acomodate",
                 "C",
                 "'Accommodate' is the correct spelling with two 'c's and two 'm's."),
       BankEntry("Which of these is a correct use of the semicolon?",
                 "A. I went to the store; and bought milk.",
                 "B. I went to the store; I bought milk.",
                 "C. I went to the store, I bought milk.",
                 "D. I went to the store; because I needed milk.",
                 "B",
                 "A semicolon is used to join two independent clauses without a conjunction. Option B correctly uses the semicolon to join two complete sentences."),
       BankEntry("Which sentence contains a dangling modifier?",
                 "A. The teacher explained the problem to the students.",
                 "B. Walking down the street, the birds sang loudly.",
                 "C. She read the book that I recommended.",
                 "D. After finishing the assignment, the student went home.",
                 "B",
                 "In the sentence 'Walking down the street, the birds sang loudly,' the modifier 'walking down the street' is dangling because birds cannot walk down the street. The subject performing the action is missing."),
       BankEntry("Which of these is the correct plural form of 'child'?",
                 "A. Childs",
                 "B. Childes",
                 "C. Children",
                 "D. Childrens",
                 "C",
                 "'Children' is the correct irregular plural form of 'child'. It doesn't follow the regular pattern of adding 's' or 'es'."),
       BankEntry("What is the meaning of the idiom 'to hit the hay'?",
                 "A. To beat someone",
                 "B. To go to sleep",
                 "C. To work in a farm",
                 "D. To exercise vigorously",
                 "B",
                 "The idiom 'to hit the hay' means to go to bed or go to sleep. It originated from the days when mattresses were filled with hay."),
       BankEntry("Which sentence uses the correct form of the verb?",
                 "A. Each of the students have completed the assignment.",
                 "B. Neither of my brothers are going to the party.",
                 "C. The team of doctors has arrived at the hospital.",
                 "D. The staff were divided on the issue.",
                 "C",
                 "In the sentence 'The team of doctors has arrived at the hospital,' the singular subject 'team' correctly takes the singular verb 'has'. 'Team' is a collective noun that's treated as singular when referring to the group as a single unit.") >>

fallback_question_texts == { fallback_questions[i].question : i \in 1..Len(fallback_questions) }

\* The elements of seq that are in keep, in order (a list comprehension).
Filter(seq, keep) == SelectSeq(seq, LAMBDA x : x \in keep)

\* random.choice(seq) when the random source yields draw.
Choice(seq, draw) == seq[(draw % Len(seq)) + 1]

\* A bank entry as the question dict returned to the caller.
BankQuestion(e, topic) ==
    [ topic          |-> topic,
      question       |-> Txt(e.question),
      options        |-> e.options,
      correct_answer |-> Str(<< e.correct_answer >>),
      explanation    |-> Str(<< e.explanation >>) ]

\* The fallback that forgets every used text, not only the bank's, when the
\* bank is used up.
generate_fallback_question_forgetful(g, topic, draw) ==
    LET unused == Filter(fallback_questions,
                         { fallback_questions[i] : i \in
                             { j \in 1..Len(fallback_questions) :
                                 fallback_questions[j].question \notin g.used_questions } })
        all_used == unused = <<>>
        pool == IF all_used THEN fallback_questions ELSE unused
        kept == IF all_used THEN {} ELSE g.used_questions
        selected == Choice(pool, draw)
    IN  [ game |-> [g EXCEPT !.used_questions = kept \cup { selected.question }],
          question_data |-> BankQuestion(selected, topic) ]

\* _generate_fallback_question(topic): the session after the call and the
\* question returned.
generate_fallback_question(g, topic, draw) ==
    LET unused == Filter(fallback_questions,
                         { fallback_questions[i] : i \in
                             { j \in 1..Len(fallback_questions) :
                                 fallback_questions[j].question \notin g.used_questions } })
        all_used == unused = <<>>
        pool == IF all_used THEN fallback_questions ELSE unused
        kept == IF all_used THEN g.used_questions \ fallback_question_texts
                ELSE g.used_questions
        selected == Choice(pool, draw)
    IN  [ game |-> [g EXCEPT !.used_questions = kept \cup { selected.question }],
          question_data |-> BankQuestion(selected, topic) ]

----------------------------------------------------------------------------
(* MillionaireGame.generate_question *)

\* The selection drawing from all of TOPICS, used or not.
SelectTopicFromAll(g, draw) ==
    LET topic == Choice(TOPICS, draw)
    IN  [ game |-> [g EXCEPT !.used_topics = @ \cup { topic }], topic |-> topic ]

\* Lines 90-98: the topic of this call and the session with it marked used.
SelectTopic(g, draw) ==
    LET available_topics == Filter(TOPICS, Range(TOPICS) \ g.used_topics)
        reset == available_topics = <<>>
        pool == IF reset THEN TOPICS ELSE available_topics
        used == IF reset THEN {} ELSE g.used_topics
        topic == Choice(pool, draw)
    IN  [ game |-> [g EXCEPT !.used_topics = used \cup { topic }], topic |-> topic ]

\* An option of the backend's JSON: a string ("str"), a dict with label and
\* text ("pair"), or anything else, held as its str() ("repr").
OptStr(text) == [kind |-> "str", label |-> "", text |-> text]
OptPair(label, text) == [kind |-> "pair", label |-> label, text |-> text]
OptRepr(text) == [kind |-> "repr", label |-> "", text |-> text]

NormalizeOption(o) ==
    IF o.kind = "pair" THEN o.label \o ". " \o o.text ELSE o.text

\* while len(normalized_options) < 4: append "Option <len + 1>"
RECURSIVE PadOptions(_)
PadOptions(opts) ==
    IF Len(opts) < 4
    THEN PadOptions(Append(opts, "Option " \o ToString(Len(opts) + 1)))
    ELSE opts

normalized_options(options) ==
    PadOptions([i \in 1..Len(options) |-> NormalizeOption(options[i])])

\* What ollama.chat does in one call: it raises ("error"), answers text from
\* which no JSON object parses ("garbage"), or answers a JSON object ("json").
BackendError == [ kind |-> "error", question |-> NoTxt, options |-> <<>>,
                  correct_answer |-> Absent, explanation |-> Absent ]
BackendGarbage == [ kind |-> "garbage", question |-> NoTxt, options |-> <<>>,
                    correct_answer |-> Absent, explanation |-> Absent ]
BackendJson(question, options, correct_answer, explanation) ==
    [ kind |-> "json", question |-> question, options |-> options,
      correct_answer |-> correct_answer, explanation |-> explanation ]

\* The value of `question_data` while no question dict is bound to it.
NoQuestion == [ topic |-> "", question |-> NoTxt, options |-> <<>>,
                correct_answer |-> Absent, explanation |-> Absent ]

\* generate_question without the test of lines 161-164: a text that is
\* already in used_questions is returned like any other.
generate_question_unchecked(g, d, inp) ==
    LET sel == SelectTopic(g, inp.draw)
        g1 == sel.game
        topic == sel.topic
        resp == inp.resp
        fb(t) == generate_fallback_question(g1, t, inp.draw)
    IN  IF resp.kind = "error"
        THEN [ game |-> fb(DefaultTopic).game,
               question_data |-> fb(DefaultTopic).question_data, again |-> FALSE ]
        ELSE IF resp.kind = "garbage"
        THEN [ game |-> fb(topic).game,
               question_data |-> fb(topic).question_data, again |-> FALSE ]
        ELSE LET question_text == IF resp.question.kind = "str"
                                  THEN resp.question.val ELSE ""
             IN  [ game |-> [g1 EXCEPT !.used_questions = @ \cup { question_text }],
                   question_data |->
                       [ topic          |-> topic,
                         question       |-> resp.question,
                         options        |-> normalized_options(resp.options),
                         correct_answer |-> resp.correct_answer,
                         explanation    |-> resp.explanation ],
                   again |-> FALSE ]

\* One call of generate_question at nesting d, up to its return or its
\* nested call: inp.draw is what the random source yields in this call,
\* inp.resp the backend's behaviour.  again = the call calls
\* generate_question again.
generate_question(g, d, inp) ==
    LET sel == SelectTopic(g, inp.draw)
        g1 == sel.game
        topic == sel.topic
        resp == inp.resp
        fb(t) == generate_fallback_question(g1, t, inp.draw)
    IN  IF resp.kind = "error"
        THEN [ game |-> fb(DefaultTopic).game,
               question_data |-> fb(DefaultTopic).question_data, again |-> FALSE ]
        ELSE IF resp.kind = "garbage"
        THEN [ game |-> fb(topic).game,
               question_data |-> fb(topic).question_data, again |-> FALSE ]
        ELSE LET question_text == IF resp.question.kind = "str"
                                  THEN resp.question.val ELSE ""
             IN  IF question_text \in g1.used_questions
                 THEN IF d + 1 < MaxDepth
                      THEN [ game |-> g1, question_data |-> NoQuestion, again |-> TRUE ]
                      ELSE \* the nested call raises RecursionError, caught at line 199
                           [ game |-> fb(DefaultTopic).game,
                             question_data |-> fb(DefaultTopic).question_data,
                             again |-> FALSE ]
                 ELSE [ game |-> [g1 EXCEPT !.used_questions = @ \cup { question_text }],
                        question_data |->
                            [ topic          |-> topic,
                              question       |-> resp.question,
                              options        |-> normalized_options(resp.options),
                              correct_answer |-> resp.correct_answer,
                              explanation    |-> resp.explanation ],
                        again |-> FALSE ]

----------------------------------------------------------------------------
(* MillionaireGame.save_session and load_session *)

RecordKeys == { "player_name", "timestamp", "model_used", "final_money",
                "questions_asked", "game_over", "used_topics", "used_questions" }

\* The keys load_session reads with session_data[...].
RequiredKeys == { "player_name", "model_used", "timestamp", "final_money",
                  "questions_asked", "game_over" }

\* The session_data dict of lines 446-455.
session_data(g) ==
    [ keys            |-> RecordKeys,
      player_name     |-> g.player_name,
      timestamp       |-> g.timestamp,
      model_used      |-> g.model,
      final_money     |-> g.current_money,
      questions_asked |-> g.questions_asked,
      game_over       |-> g.game_over,
      used_topics     |-> g.used_topics,
      used_questions  |-> g.used_questions ]

\* save_session(): the files after the call; written = FALSE is an I/O error,
\* which is caught and reported.
save_session(g, fs, written) ==
    IF written THEN (g.session_file :> session_data(g)) @@ fs ELSE fs

\* The value of `game` while no session object is bound to it.
NoGame == MillionaireGame(<<>>, DefaultModel, 0)

\* load_session that also takes the persisted used_topics and used_questions.
load_session_seeded(fs, filename, now) ==
    LET session == fs[filename]
        g0 == MillionaireGame(session.player_name, session.model_used, now)
        history == session.questions_asked
        hits == { i \in 0..LastIndex : Ladder(i) = session.final_money }
    IN  [ ok |-> TRUE,
          game |-> [g0 EXCEPT
                      !.timestamp = session.timestamp,
                      !.session_file = filename,
                      !.current_money = session.final_money,
                      !.questions_asked = history,
                      !.game_over = session.game_over,
                      !.current_question_num = IF hits = {} THEN 0 ELSE Min(hits),
                      !.used_questions = session.used_questions
                          \cup { history[i].question : i \in 1..Len(history) },
                      !.used_topics = session.used_topics
                          \cup { history[i].topic : i \in 1..Len(history) }] ]

\* load_session that restores the history but does not mark its questions
\* as used.
load_session_unmarked(fs, filename, now) ==
    IF filename \notin DOMAIN fs
    THEN [ ok |-> FALSE, game |-> NoGame ]
    ELSE LET session == fs[filename]
         IN  IF ~ (RequiredKeys \subseteq session.keys)
             THEN [ ok |-> FALSE, game |-> NoGame ]
             ELSE LET g0 == MillionaireGame(session.player_name, session.model_used, now)
                      history == session.questions_asked
                      g1 == [g0 EXCEPT
                               !.timestamp = session.timestamp,
                               !.session_file = filename,
                               !.current_money = session.final_money,
                               !.questions_asked = history,
                               !.game_over = session.game_over,
                               !.used_topics =
                                   { history[i].topic : i \in 1..Len(history) }]
                      hits == { i \in 0..LastIndex : Ladder(i) = g1.current_money }
                  IN  [ ok |-> TRUE,
                        game |-> IF hits = {} THEN g1
                                 ELSE [g1 EXCEPT !.current_question_num = Min(hits)] ]

\* load_session(filename) at time now: ok = FALSE is the return of None.
load_session(fs, filename, now) ==
    IF filename \notin DOMAIN fs
    THEN [ ok |-> FALSE, game |-> NoGame ]
    ELSE LET session == fs[filename]
         IN  IF ~ (RequiredKeys \subseteq session.keys)
             THEN \* KeyError, caught at line 509
                  [ ok |-> FALSE, game |-> NoGame ]
             ELSE LET g0 == MillionaireGame(session.player_name, session.model_used, now)
                      history == session.questions_asked
                      g1 == [g0 EXCEPT
                               !.timestamp = session.timestamp,
                               !.session_file = filename,
                               !.current_money = session.final_money,
                               !.questions_asked = history,
                               !.game_over = session.game_over,
                               !.used_questions =
                                   { history[i].question : i \in 1..Len(history) },
                               !.used_topics =
                                   { history[i].topic : i \in 1..Len(history) }]
                      hits == { i \in 0..LastIndex : Ladder(i) = g1.current_money }
                  IN  [ ok |-> TRUE,
                        game |-> IF hits = {} THEN g1
                                 ELSE [g1 EXCEPT !.current_question_num = Min(hits)] ]

----------------------------------------------------------------------------
(* Inputs of the model. *)

Letters == { << "A" >>, << "B" >>, << "C" >>, << "D" >> }

Player == << "P", "l", "a", "y", "e", "r" >>

\* What the player types at "Enter your name" (after .strip()).
PlayerNames == { << "a", " ", "b" >> }

\* ... or nothing at all, or a name that differs from it in a space only.
OddNames == { <<>>, << "a", "_", "b" >> }

FourOptions == << OptStr("A. one"), OptStr("B. two"), OptStr("C. three"), OptStr("D. four") >>

\* What the random source yields: the first element of the list, or also
\* the second.
FirstDraw == { 0 }
Draws == { 0, 1 }

\* Ticks between two looks at the clock.
Waits == { 0, 1 }

\* A well-formed answer whose text is the first question of every saved
\* history.
RepeatedQuestion ==
    BackendJson(Txt("Q1"), FourOptions, Str(<< "B" >>), Str(<< "E" >>))

\* The backend's answers: a text already in the saved histories, new texts
\* with decorated or missing fields, an error, and unparseable output.
Responses ==
    { BackendError,
      RepeatedQuestion,
      BackendJson(Txt("N1"), << OptPair("A", "one"), OptStr("B. two") >>,
                  Str(<< " ", "c", "." >>), Absent) }

\* ... and answers whose fields are missing or are no strings.
OddResponses ==
    { BackendGarbage,
      BackendJson(NoTxt, FourOptions, Absent, Other),
      BackendJson(Txt("N2"), FourOptions, Other, Str(<< "E" >>)) }

\* An answer with k options, all of them strings.
CountedResponse(k) ==
    BackendJson(Txt("O" \o ToString(k)),
                [ i \in 1..k |-> OptStr("o" \o ToString(i)) ],
                Str(<< "B" >>), Str(<< "E" >>))

\* An answer that has no correct_answer and no explanation.
UnkeyedResponse == BackendJson(Txt("N3"), FourOptions, Absent, Absent)

\* An answer that has no question text.
UntitledResponse ==
    BackendJson(NoTxt, << OptPair("A", "one"), OptRepr("{}") >>,
                Str(<< "d" >>), Str(<< "E" >>))

\* The backend's answers when the questions themselves are looked at: every
\* kind of failure, a repeated text, missing fields, and every number of
\* options.
QuestionResponses ==
    { BackendError, BackendGarbage, RepeatedQuestion, UnkeyedResponse,
      UntitledResponse }
      \cup { CountedResponse(k) : k \in 0..MaxOptions }


----------------------------------------------------------------------------
(* Sessions saved by earlier runs of the program. *)

OldPlayer == << "a", " ", "b" >>

OldResponse(k) ==
    BackendJson(Txt("Q" \o ToString(k)), FourOptions, Str(<< "B" >>), Str(<< "E" >>))

\* Question k of an earlier run, generated from the session g.
OldQuestion(g, k) ==
    generate_question(g, 0, [ draw |-> 0, resp |-> OldResponse(k) ])

\* The session of an earlier run (created at time 0) after n correct answers:
\* question k was OldResponse(k) on topic TOPICS[k], answered "B".
Played(n) ==
    [ MillionaireGame(OldPlayer, DefaultModel, 0) EXCEPT
        !.current_question_num = n,
        !.current_money = Ladder(n),
        !.questions_asked =
            [ k \in 1..n |->
                [ question_num   |-> k,
                  question       |-> "Q" \o ToString(k),
                  options        |-> normalized_options(FourOptions),
                  user_answer    |-> << "B" >>,
                  correct_answer |-> << "B" >>,
                  explanation    |-> << "E" >>,
                  topic          |-> TOPICS[k],
                  amount_won     |-> Ladder(k) ] ],
        !.used_topics = { TOPICS[k] : k \in 1..n },
        !.used_questions = { "Q" \o ToString(k) : k \in 1..n } ]

\* Played(n) is what the program's operations make of Played(n - 1).
PlayedIsPlayable ==
    \A n \in 1..LastIndex :
        LET gen == OldQuestion(Played(n - 1), n)
        IN  Played(n) = process_answer(gen.game, << "B" >>, gen.question_data).game

\* ... after n - 1 correct answers and a wrong one.
Lost(n) ==
    LET gen == OldQuestion(Played(n - 1), n)
    IN  process_answer(gen.game, << "A" >>, gen.question_data).game

\* The session of an earlier run after n correct answers of which the first
\* b were given to questions of the fallback bank, each chosen after
\* unparseable output of the backend: question k <= b is the k-th of the bank.
PlayedBank(n, b) ==
    [ Played(n) EXCEPT
        !.questions_asked =
            [ k \in 1..n |->
                IF k > b THEN Played(n).questions_asked[k]
                ELSE [ question_num   |-> k,
                       question       |-> fallback_questions[k].question,
                       options        |-> fallback_questions[k].options,
                       user_answer    |-> << fallback_questions[k].correct_answer >>,
                       correct_answer |-> << fallback_questions[k].correct_answer >>,
                       explanation    |-> << fallback_questions[k].explanation >>,
                       topic          |-> TOPICS[k],
                       amount_won     |-> Ladder(k) ] ],
        !.used_questions =
            { fallback_questions[k].question : k \in 1..b }
                \cup { "Q" \o ToString(k) : k \in (b + 1)..n } ]

\* PlayedBank(n, b) is what the program's operations make of
\* PlayedBank(n - 1, b) or PlayedBank(n - 1, b - 1).
PlayedBankIsPlayable ==
    \A n \in 1..LastIndex : \A b \in 0..Len(fallback_questions) :
        b <= n =>
            LET bank == b = n
                gen == IF bank
                       THEN generate_question(PlayedBank(n - 1, b - 1), 0,
                                [ draw |-> 0, resp |-> BackendGarbage ])
                       ELSE OldQuestion(PlayedBank(n - 1, b), n)
                letter == gen.question_data.correct_answer.val
            IN  PlayedBank(n, b)
                    = process_answer(gen.game, letter, gen.question_data).game

Disk(g) == g.session_file :> session_data(g)

EmptyDisk == [ f \in {} |-> session_data(NoGame) ]

\* The levels of the saved sessions: every level of the ladder is one of
\* them or one correct answer after one of them.
StartLevels == { 1, 3, 5, 7, 9, 11, 13, 14, 15 }

\* What save_session has left in the working directory: nothing, a session
\* saved after its n-th correct answer, a lost one, a cashed-out one.
SavedDisks ==
    { EmptyDisk }
      \cup { Disk(Played(n)) : n \in StartLevels }
      \cup { Disk(Lost(7)), Disk([Played(10) EXCEPT !.game_over = TRUE]) }

\* Session files that were edited, or written by something else: the money
\* is no ladder amount, or a required key is missing.
ForeignDisks ==
    { Disk([Played(2) EXCEPT !.current_money = 50000]),
      Disk([Lost(3) EXCEPT !.current_money = 250]),
      Played(2).session_file :>
          [session_data(Played(2)) EXCEPT !.keys = @ \ { "final_money" }] }

\* Saved sessions whose histories hold none, some, or all of the questions of
\* the fallback bank, and some or all of the topics.
BankLevels == { << 1, 1 >>, << 7, 7 >>, << 8, 8 >>, << 9, 8 >>,
                << 14, 0 >>, << 14, 8 >>, << 15, 8 >> }

QuestionDisks == { Disk(PlayedBank(nb[1], nb[2])) : nb \in BankLevels }

----------------------------------------------------------------------------
(* main(): the menu, the game loop and the end of the game. *)

ClockStart == TicksPerSecond

\* A stop that falls back to the last milestone, as a wrong answer does.
quit_game_with_fallback(g) ==
    [g EXCEPT !.game_over = TRUE, !.current_money = money_to_fall_back(@)]

\* Lines 606-609 and 622-624: the player stops; only game_over is assigned.
quit_game(g) == [g EXCEPT !.game_over = TRUE]

\* Lines 616-626: where main() goes after the save of line 614.
AfterSave(g) ==
    IF g.game_over THEN "end"
    ELSE IF g.current_money > 0 THEN "cont"
    ELSE "loop"

\* main() without the save of line 614.
AfterAnswerUnsaved(g) == AfterSave(g)

\* Lines 604-614: where main() goes after process_answer returns.
AfterAnswer(g) == "save"

InitWith(disks) ==
    /\ pc = "menu"
    /\ game = NoGame
    /\ question_data = NoQuestion
    /\ user_input = <<>>
    /\ files \in disks
    /\ clock = ClockStart
    /\ op = "start"
    /\ ret = FALSE
    /\ unsaved = FALSE
    /\ depth = 0
    /\ rounds = 0

Init == InitWith(SavedDisks)

InitAnyFile == InitWith(ForeignDisks \cup { EmptyDisk, Disk(Played(14)) })

\* Choice 1: a new game, dt ticks after the last look at the clock.
NewGame(name, dt) ==
    /\ pc = "menu"
    /\ clock + dt <= ClockStart + MaxClock
    /\ game' = MillionaireGame(IF name = <<>> THEN Player ELSE name,
                               DefaultModel, clock + dt)
    /\ clock' = clock + dt
    /\ pc' = "loop"
    /\ op' = "new"
    /\ ret' = FALSE
    /\ UNCHANGED << question_data, user_input, files, unsaved, depth, rounds >>

\* Choice 2: load one of the listed session files.
LoadSession(filename) ==
    /\ pc = "menu"
    /\ filename \in DOMAIN files
    /\ LET res == load_session(files, filename, clock)
       IN  /\ game' = res.game
           /\ ret' = res.ok
           /\ pc' = IF res.ok THEN "loop" ELSE "menu"
    /\ op' = "load"
    /\ UNCHANGED << question_data, user_input, files, clock, unsaved, depth, rounds >>

\* while not game.game_over: the loop is left.
LoopExit ==
    /\ pc = "loop"
    /\ game.game_over
    /\ pc' = "end"
    /\ op' = "over"
    /\ ret' = FALSE
    /\ UNCHANGED << game, question_data, user_input, files, clock, unsaved, depth, rounds >>

\* The calls of generate_question with no limit to their nesting.
GenerateQuestionUnlimited(inp) ==
    /\ \/ pc = "loop" /\ ~ game.game_over /\ rounds < MaxRounds
       \/ pc = "retry"
    /\ LET res == generate_question(game, 0, inp)
       IN  /\ game' = res.game
           /\ question_data' = IF res.again THEN question_data ELSE res.question_data
           /\ pc' = IF res.again THEN "retry" ELSE "ask"
    /\ depth' = depth
    /\ rounds' = IF pc = "loop" THEN rounds + 1 ELSE rounds
    /\ op' = "generate"
    /\ ret' = FALSE
    /\ UNCHANGED << user_input, files, clock, unsaved >>

\* A game loop that does not test game_over before it asks for a question.
GenerateQuestionWhenOver(inp) ==
    /\ \/ pc = "loop" /\ rounds < MaxRounds
       \/ pc = "retry"
    /\ LET res == generate_question(game, depth, inp)
       IN  /\ game' = res.game
           /\ question_data' = IF res.again THEN question_data ELSE res.question_data
           /\ pc' = IF res.again THEN "retry" ELSE "ask"
           /\ depth' = IF res.again THEN depth + 1 ELSE 0
    /\ rounds' = IF pc = "loop" THEN rounds + 1 ELSE rounds
    /\ op' = "generate"
    /\ ret' = FALSE
    /\ UNCHANGED << user_input, files, clock, unsaved >>

\* Line 597, and each nested call of line 164.
GenerateQuestion(inp) ==
    /\ \/ pc = "loop" /\ ~ game.game_over /\ rounds < MaxRounds
       \/ pc = "retry"
    /\ LET res == generate_question(game, depth, inp)
       IN  /\ game' = res.game
           /\ question_data' = IF res.again THEN question_data ELSE res.question_data
           /\ pc' = IF res.again THEN "retry" ELSE "ask"
           /\ depth' = IF res.again THEN depth + 1 ELSE 0
    /\ rounds' = IF pc = "loop" THEN rounds + 1 ELSE rounds
    /\ op' = "generate"
    /\ ret' = FALSE
    /\ UNCHANGED << user_input, files, clock, unsaved >>

\* The player types A, B, C or D.
Answer(letter) ==
    /\ pc = "ask"
    /\ LET res == process_answer(game, letter, question_data)
       IN  /\ game' = res.game
           /\ question_data' = res.question_data
           /\ ret' = res.ret
           /\ op' = IF res.raised THEN "answer_error" ELSE "answer"
           /\ pc' = AfterAnswer(res.game)
    /\ user_input' = letter
    /\ unsaved' = TRUE
    /\ UNCHANGED << files, clock, depth, rounds >>

\* The player types EXIT.
Exit ==
    /\ pc = "ask"
    /\ game' = quit_game(game)
    /\ user_input' = << "E", "X", "I", "T" >>
    /\ pc' = "save"
    /\ op' = "exit"
    /\ ret' = FALSE
    /\ UNCHANGED << question_data, files, clock, unsaved, depth, rounds >>

\* The save of line 614 with an I/O error that is not caught: main() ends.
SaveSessionUncaught(written) ==
    /\ pc = "save"
    /\ files' = save_session(game, files, written)
    /\ unsaved' = FALSE
    /\ pc' = IF written THEN AfterSave(game) ELSE "exited"
    /\ game' = IF written THEN game ELSE NoGame
    /\ op' = IF written THEN "save" ELSE "save_error"
    /\ ret' = FALSE
    /\ UNCHANGED << question_data, user_input, clock, depth, rounds >>

\* Line 614, and the tests that follow it.
SaveSession(written) ==
    /\ pc = "save"
    /\ files' = save_session(game, files, written)
    /\ unsaved' = FALSE
    /\ pc' = AfterSave(game)
    /\ op' = IF written THEN "save" ELSE "save_error"
    /\ ret' = FALSE
    /\ UNCHANGED << game, question_data, user_input, clock, depth, rounds >>

\* "Do you want to continue?": Y.
Continue ==
    /\ pc = "cont"
    /\ pc' = "loop"
    /\ op' = "continue"
    /\ ret' = FALSE
    /\ UNCHANGED << game, question_data, user_input, files, clock, unsaved, depth, rounds >>

\* "Do you want to continue?": anything else; the session is saved again.
CashOut(written) ==
    /\ pc = "cont"
    /\ game' = quit_game(game)
    /\ files' = save_session(quit_game(game), files, written)
    /\ pc' = "end"
    /\ op' = "cashout"
    /\ ret' = FALSE
    /\ UNCHANGED << question_data, user_input, clock, unsaved, depth, rounds >>

\* "Would you like to play again?": Y calls main() again.
PlayAgain ==
    /\ pc = "end"
    /\ pc' = "menu"
    /\ game' = NoGame
    /\ question_data' = NoQuestion
    /\ user_input' = <<>>
    /\ op' = "again"
    /\ ret' = FALSE
    /\ UNCHANGED << files, clock, unsaved, depth, rounds >>

\* Menu choice 3, or N at "play again": the process ends.
Goodbye ==
    /\ pc \in { "menu", "end" }
    /\ pc' = "exited"
    /\ game' = NoGame
    /\ question_data' = NoQuestion
    /\ user_input' = <<>>
    /\ op' = "goodbye"
    /\ ret' = FALSE
    /\ UNCHANGED << files, clock, unsaved, depth, rounds >>

\* Ctrl-C at a prompt ends the process (lines 644-646); the program is run
\* again and shows its menu.
Interrupt ==
    /\ pc \in { "ask", "cont" }
    /\ pc' = "menu"
    /\ game' = NoGame
    /\ question_data' = NoQuestion
    /\ user_input' = <<>>
    /\ unsaved' = FALSE
    /\ depth' = 0
    /\ op' = "restart"
    /\ ret' = FALSE
    /\ UNCHANGED << files, clock, rounds >>

\* The steps of the program when the player's names, the random draws, the
\* backend's answers and the outcomes of writing a file are drawn from the
\* given sets.
NextWith(names, draws, resps, writes) ==
    \/ \E name \in names, dt \in Waits : NewGame(name, dt)
    \/ \E filename \in DOMAIN files : LoadSession(filename)
    \/ LoopExit
    \/ \E inp \in [ draw : draws, resp : resps ] : GenerateQuestion(inp)
    \/ \E letter \in Letters : Answer(letter)
    \/ Exit
    \/ \E written \in writes : SaveSession(written)
    \/ Continue
    \/ \E written \in writes : CashOut(written)
    \/ PlayAgain
    \/ Goodbye
    \/ Interrupt

\* The program with the session files it has written itself, a backend that
\* answers well-formed questions or fails, and a disk that takes every write.
Next == NextWith(PlayerNames, FirstDraw, Responses, { TRUE })

Spec == Init /\ [][Next]_vars

\* The program with session files of any origin, a backend whose answers
\* may be unparseable or lack fields, and a disk that may refuse a write.
NextAnyFile ==
    NextWith(PlayerNames, FirstDraw, OddResponses \cup { RepeatedQuestion }, BOOLEAN)

SpecAnyFile == InitAnyFile /\ [][NextAnyFile]_vars

\* The program from its start to the answer to its first question, with a
\* random source that yields more than one value and a backend that gives
\* every kind of answer.
InitQuestions == InitWith(QuestionDisks)

QuestionInputs == [ draw : Draws, resp : QuestionResponses ]

NextQuestions ==
    \/ \E name \in PlayerNames, dt \in Waits : NewGame(name, dt)
    \/ \E filename \in DOMAIN files : LoadSession(filename)
    \/ \E inp \in QuestionInputs : GenerateQuestion(inp)
    \/ \E letter \in Letters : Answer(letter)

SpecQuestions == InitQuestions /\ [][NextQuestions]_vars

\* ... in which a call of generate_question that has begun goes on: the
\* backend answers or fails in finite time.
FairQuestions ==
    SpecQuestions /\ WF_vars(\E inp \in QuestionInputs : GenerateQuestion(inp))

----------------------------------------------------------------------------
(* Properties. *)

\* The question is one of the data model: its correct_answer is a string and
\* its explanation is a string or missing.
WellFormed(q) == q.correct_answer.kind = "str" /\ q.explanation.kind # "other"

\* A step of main() in which the player types a letter and process_answer runs.
AnswerStep == pc = "ask" /\ pc' = "save" /\ user_input' \in Letters

\* The letter typed in this step is / is not the question's correct answer.
TypedCorrect ==
    Upper(user_input') = NormalizeCorrect(question_data.correct_answer.val)

\* The history after the step is the history before it plus one record.
AppendsOne == /\ Len(game'.questions_asked) = Len(game.questions_asked) + 1
              /\ SubSeq(game'.questions_asked, 1, Len(game.questions_asked))
                     = game.questions_asked

LastRecord(g) == g.questions_asked[Len(g.questions_asked)]

\* C1: in a session in progress with current_question_num = n in 0..14,
\* process_answer with the correct letter (of a well-formed question) sets
\* current_question_num to n + 1 and current_money to MONEY_LADDER[n + 1],
\* appends exactly one record with question_num = n + 1 and amount_won =
\* MONEY_LADDER[n + 1], leaves game_over false and returns True.
C1_CorrectAnswerAdvances ==
    [][ ( /\ AnswerStep
          /\ WellFormed(question_data)
          /\ ~ game.game_over
          /\ game.current_question_num \in 0..(LastIndex - 1)
          /\ TypedCorrect )
        => ( /\ game'.current_question_num = game.current_question_num + 1
             /\ game'.current_money = Ladder(game.current_question_num + 1)
             /\ AppendsOne
             /\ LastRecord(game').question_num = game.current_question_num + 1
             /\ LastRecord(game').amount_won = Ladder(game.current_question_num + 1)
             /\ ~ game'.game_over
             /\ ret' = TRUE ) ]_vars

\* The 15th question has just been answered correctly.
C1_Witness ==
    /\ op = "answer" /\ ret = TRUE
    /\ game.current_question_num = LastIndex
    /\ game.current_money = 1000000
    /\ Len(game.questions_asked) = LastIndex

\* The greatest element of {0, 1000, 32000} that is <= money.
GreatestSafeAmount(money) == Max({ a \in { 0, 1000, 32000 } : a <= money })

\* C2: whatever current_money and current_question_num = n are,
\* process_answer with a letter that is not the correct answer (of a
\* well-formed question) sets current_money to the greatest element of
\* {0, 1000, 32000} that is <= the money before, appends exactly one record
\* with question_num = n + 1 and amount_won = that amount, sets game_over,
\* leaves current_question_num unchanged and returns False.
C2_WrongAnswerFallsBack ==
    [][ ( /\ AnswerStep
          /\ WellFormed(question_data)
          /\ ~ TypedCorrect )
        => ( /\ game'.current_money = GreatestSafeAmount(game.current_money)
             /\ AppendsOne
             /\ LastRecord(game').question_num = game.current_question_num + 1
             /\ LastRecord(game').amount_won = GreatestSafeAmount(game.current_money)
             /\ game'.game_over
             /\ game'.current_question_num = game.current_question_num
             /\ ret' = FALSE ) ]_vars

\* A wrong answer with 64,000 won has fallen back to 32,000.
C2_Witness ==
    /\ op = "answer" /\ ret = FALSE
    /\ game.game_over
    /\ game.current_question_num = 11
    /\ game.current_money = 32000
    /\ LastRecord(game).question_num = 12

\* C3: a correct answer that brings current_question_num to the last index
\* of the ladder ends the game: game_over is true with 1,000,000 won.
C3_LastQuestionWinsOutright ==
    (op = "answer" /\ ret = TRUE /\ game.current_question_num = LastIndex)
        => (game.game_over /\ game.current_money = 1000000)

\* C4: while the game is active, current_question_num is an index of the
\* ladder and current_money = MONEY_LADDER[current_question_num].
C4_ActiveMoneyIsLadderOfNum ==
    (pc \in { "loop", "retry", "ask", "save", "cont" } /\ ~ game.game_over)
        => ( /\ game.current_question_num \in 0..LastIndex
             /\ game.current_money = Ladder(game.current_question_num) )

\* C5: current_money is always an amount of MONEY_LADDER or a milestone.
C5_MoneyIsLadderAmount ==
    game.current_money \in Range(MONEY_LADDER) \cup Range(MILESTONES)

\* C6: a voluntary stop (EXIT at a question, or declining to continue, which
\* is offered only with current_money > 0) sets game_over and changes nothing
\* else of the session: no fallback, no history record.
C6_VoluntaryStopKeepsMoney ==
    [][ ( \/ pc = "ask" /\ pc' = "save" /\ user_input' \notin Letters
          \/ pc = "cont" /\ pc' = "end" )
        => ( /\ game'.game_over
             /\ game' = [game EXCEPT !.game_over = TRUE]
             /\ (pc = "cont" => game.current_money > 0) ) ]_vars

\* The player has typed EXIT with 32,000 won after question 10.
C6_Witness ==
    /\ op = "exit"
    /\ game.game_over
    /\ game.current_question_num = 10
    /\ game.current_money = 32000
    /\ Len(game.questions_asked) = 10

\* C7: no question is generated while the result of a process_answer call
\* has not been passed to save_session.
C7_SavedBeforeNextQuestion == (pc \in { "retry", "ask" }) => ~ unsaved

\* A second question of a new session is on the screen: the first one was
\* answered in this run and its result saved (or the save failed).
C7_Witness ==
    /\ pc = "ask" /\ op = "generate"
    /\ rounds = 2
    /\ game.timestamp >= 1
    /\ Len(game.questions_asked) = 1

\* The record of the session that the last step loaded.
LoadedRecord == files[game.session_file]

HistoryQuestions(h) == { h[i].question : i \in 1..Len(h) }
HistoryTopics(h) == { h[i].topic : i \in 1..Len(h) }

\* C8: every topic and question text persisted in the record's used_topics
\* and used_questions is in the used sets of the session load_session returns.
C8_LoadKeepsPersistedUsedSets ==
    (op = "load" /\ ret = TRUE)
        => ( /\ LoadedRecord.used_topics \subseteq game.used_topics
             /\ LoadedRecord.used_questions \subseteq game.used_questions )

\* C9: the session load_session returns has exactly the question texts and
\* the topics of the record's history as its used sets, whatever the record's
\* used_topics and used_questions hold.
C9_LoadDerivesUsedSetsFromHistory ==
    (op = "load" /\ ret = TRUE)
        => ( /\ game.used_questions = HistoryQuestions(LoadedRecord.questions_asked)
             /\ game.used_topics = HistoryTopics(LoadedRecord.questions_asked) )

\* A record has been loaded whose persisted used_topics are not the topics
\* of its history.
C9_Witness ==
    /\ op = "load" /\ ret = TRUE
    /\ LoadedRecord.questions_asked # <<>>
    /\ LoadedRecord.used_topics # HistoryTopics(LoadedRecord.questions_asked)

\* C10: load_session returns a session only for a record whose money is an
\* amount of MONEY_LADDER.
C10_OffLadderRecordRejected ==
    (op = "load" /\ ret = TRUE) => game.current_money \in Range(MONEY_LADDER)

\* C11: when save_session fails with an I/O error, no exception leaves it,
\* no field of the session in memory changes, and main() goes on to the step
\* it takes after a successful save: the end of the game if game_over, the
\* continue prompt if money has been won, the next question otherwise.
C11_FailedSaveKeepsSessionAndGoesOn ==
    [][ (pc = "save" /\ op' = "save_error")
        => ( /\ game' = game
             /\ question_data' = question_data
             /\ files' = files
             /\ pc' = IF game.game_over THEN "end"
                      ELSE IF game.current_money > 0 THEN "cont"
                      ELSE "loop" ) ]_vars

\* The first save of a new session has failed after a correct answer: the
\* player is asked whether to continue, and no record is on the disk.
C11_Witness ==
    /\ op = "save_error"
    /\ pc = "cont"
    /\ game.current_money = 100
    /\ Len(game.questions_asked) = 1
    /\ game.session_file \notin DOMAIN files

\* A step that is one call of generate_question, nested calls included.
GenerateStep == pc \in { "loop", "retry" } /\ op' = "generate"

\* C12: every call of generate_question, the nested calls after a duplicate
\* included, chooses one topic of TOPICS that is not in used_topics and adds
\* it; only when every topic of TOPICS is in used_topics is the set reset to
\* the one topic chosen.  Answering a question leaves used_topics alone.
C12_TopicNotRepeatedBeforeWrapAround ==
    [][ /\ GenerateStep
            => LET free == Range(TOPICS) \ game.used_topics
               IN  IF free # {}
                   THEN \E t \in free : game'.used_topics = game.used_topics \cup { t }
                   ELSE \E t \in Range(TOPICS) : game'.used_topics = { t }
        /\ (pc = "ask" /\ pc' = "save")
            => game'.used_topics = game.used_topics ]_vars

\* A session with all 15 topics in its history has been asked a question:
\* the used topics are the one just chosen.
C12_Witness ==
    /\ op = "generate"
    /\ Len(game.questions_asked) = Len(TOPICS)
    /\ game.used_topics = { TOPICS[2] }

\* A call of generate_question that returns a question of the fallback bank
\* (no answer of the backend carries a text of the bank).
FallbackReturn ==
    /\ GenerateStep
    /\ pc' = "ask"
    /\ question_data'.question.val \in fallback_question_texts

\* C13: the bank question returned was not in used_questions when the
\* fallback was called, unless all 8 texts of the bank were; then exactly
\* the texts of the bank are removed from used_questions before one is
\* chosen.  Either way the chosen text is in used_questions on return.
C13_FallbackAvoidsUsedBankQuestions ==
    [][ FallbackReturn
        => LET used == game.used_questions
               text == question_data'.question.val
           IN  /\ text \in game'.used_questions
               /\ IF fallback_question_texts \subseteq used
                  THEN game'.used_questions
                           = (used \ fallback_question_texts) \cup { text }
                  ELSE /\ text \notin used
                       /\ game'.used_questions = used \cup { text } ]_vars

\* A session whose history holds all 8 bank questions and "Q9" has been given
\* a bank question again: of the bank's texts only that one is marked used,
\* and "Q9" still is.
C13_Witness ==
    /\ op = "generate" /\ pc = "ask"
    /\ fallback_question_texts \subseteq HistoryQuestions(game.questions_asked)
    /\ question_data.question.val \in fallback_question_texts
    /\ game.used_questions \cap fallback_question_texts = { question_data.question.val }
    /\ "Q9" \in game.used_questions

\* A call of generate_question that returns a question made by the backend.
BackendReturn ==
    /\ GenerateStep
    /\ pc' = "ask"
    /\ question_data'.question.val \notin fallback_question_texts

\* C14: the text of a backend question that generate_question returns was
\* not in used_questions when the call received it; a call that receives a
\* used text returns nothing and marks nothing, and generate_question is
\* called again (which selects a topic again, C12).
C14_DuplicateIsNotReturned ==
    [][ /\ BackendReturn => question_data'.question.val \notin game.used_questions
        /\ (GenerateStep /\ pc' = "retry")
            => ( /\ question_data' = question_data
                 /\ game'.used_questions = game.used_questions
                 /\ game'.used_topics # game.used_topics ) ]_vars

\* A session with "Q1" and 14 topics used received "Q1", chose a topic again
\* (which wrapped the topics around) and returned the new text "N3".
C14_Witness ==
    /\ op = "generate" /\ pc = "ask"
    /\ Len(game.questions_asked) = 14
    /\ "Q1" \in game.used_questions
    /\ Cardinality(game.used_topics) = 1
    /\ question_data.question.val = "N3"

\* generate_question has returned the question in question_data.
Returned == op = "generate" /\ pc = "ask"

\* C15: whenever generate_question has returned a question, its text is in
\* used_questions and its topic is in used_topics.
C15_ReturnedQuestionIsMarkedUsed ==
    Returned => ( /\ question_data.question.val \in game.used_questions
                  /\ question_data.topic \in game.used_topics )

\* C16: every question generate_question returns has a question text that
\* is not empty and a correct_answer: an answer of the backend that lacks
\* one of them is not returned.
C16_ReturnedQuestionHasRequiredFields ==
    Returned => ( /\ question_data.question.kind = "str"
                  /\ question_data.question.val # ""
                  /\ question_data.correct_answer.kind # "absent" )

\* C17: every question generate_question returns has exactly 4 options.
C17_ReturnedQuestionHasFourOptions ==
    Returned => Len(question_data.options) = 4

\* What does hold: a returned question has at least 4 options, and exactly
\* 4 unless the backend's answer had more.
PaddedToAtLeastFour ==
    Returned => ( /\ Len(question_data.options) >= 4
                  /\ question_data.question.val
                         \notin { CountedResponse(k).question.val : k \in 5..MaxOptions }
                     => Len(question_data.options) = 4 )

\* C18: a call of generate_question that has begun, or that has called
\* itself after a duplicate, leads to a returned question, whatever the
\* backend does in each call.
C18_GenerateQuestionReturns ==
    (pc \in { "loop", "retry" }) ~> (pc = "ask")

\* A session with "Q1" used has received a used text in a nested call and
\* has been given a bank question with the default topic.
C18_Witness ==
    /\ op = "generate" /\ pc = "ask"
    /\ Len(game.questions_asked) = 14
    /\ "Q1" \in game.used_questions
    /\ Cardinality(game.used_topics) = 1
    /\ question_data.question.val \in fallback_question_texts
    /\ question_data.topic = DefaultTopic

\* C19: process_answer on a question that has no correct_answer takes "A"
\* as the correct answer and resolves the round: A advances the session (at
\* a level below the last), B, C and D end the game with the fallback
\* amount; the default is written into the question dict.
C19_MissingCorrectAnswerIsA ==
    [][ ( /\ AnswerStep
          /\ question_data.correct_answer.kind = "absent"
          /\ question_data.explanation.kind # "other" )
        => ( /\ question_data'.correct_answer = Str(<< "A" >>)
             /\ (user_input' = << "A" >> /\ game.current_question_num < LastIndex)
                 => ( /\ op' = "answer" /\ ret' = TRUE
                      /\ game'.current_question_num = game.current_question_num + 1
                      /\ game'.current_money = Ladder(game.current_question_num + 1)
                      /\ ~ game'.game_over
                      /\ AppendsOne
                      /\ LastRecord(game').correct_answer = << "A" >> )
             /\ user_input' # << "A" >>
                 => ( /\ op' = "answer" /\ ret' = FALSE
                      /\ game'.current_question_num = game.current_question_num
                      /\ game'.current_money = GreatestSafeAmount(game.current_money)
                      /\ game'.game_over
                      /\ AppendsOne
                      /\ LastRecord(game').correct_answer = << "A" >> ) ) ]_vars

\* The question "N3", which came without correct_answer, has been answered
\* with A and the session has advanced to 16,000.
C19_Witness ==
    /\ op = "answer" /\ ret = TRUE
    /\ user_input = << "A" >>
    /\ question_data.question.val = "N3"
    /\ game.current_money = 16000
    /\ LastRecord(game).question = "N3"
    /\ LastRecord(game).correct_answer = << "A" >>

\* C20: a session keeps its file name for its lifetime, a save writes that
\* file and no other, and a new session's file name is not the name of the
\* record of another session.
C20_SessionFileIsItsOwn ==
    [][ /\ op' \in { "generate", "answer", "answer_error", "exit", "save",
                     "save_error", "continue", "cashout" }
            => game'.session_file = game.session_file
        /\ op' \in { "save", "cashout" }
            => \A f \in DOMAIN files \ { game.session_file } :
                   f \in DOMAIN files' /\ files'[f] = files[f]
        /\ op' = "new"
            => game'.session_file \notin DOMAIN files ]_vars

\* What does hold: the file name is kept and a save writes only that file.
SessionFileIsKept ==
    [][ /\ op' \in { "generate", "answer", "answer_error", "exit", "save",
                     "save_error", "continue", "cashout" }
            => game'.session_file = game.session_file
        /\ op' \in { "save", "cashout" }
            => \A f \in DOMAIN files \ { game.session_file } :
                   f \in DOMAIN files' /\ files'[f] = files[f] ]_vars

\* A session is being played: it is bound to `game` and main() is in its loop.
InPlay == pc \in { "loop", "retry", "ask", "save", "cont" }

\* load_session of the record that save_session writes for the session in
\* memory.
Reloaded ==
    load_session(save_session(game, files, TRUE), game.session_file, clock)

SameSession(g, h) ==
    /\ g.current_money = h.current_money
    /\ g.current_question_num = h.current_question_num
    /\ g.game_over = h.game_over
    /\ g.questions_asked = h.questions_asked
    /\ g.player_name = h.player_name
    /\ g.model = h.model

\* C21: for every session reached by play that is not over, load_session of
\* the record save_session writes returns a session with the same money,
\* question number, game_over flag, history, player name and model.
C21_LoadOfSaveRestoresSession ==
    (InPlay /\ ~ game.game_over)
        => (Reloaded.ok /\ SameSession(Reloaded.game, game))

\* What does hold: the same for the sessions whose question number is an
\* index of the ladder.
LoadOfSaveRestoresSessionOnLadder ==
    (InPlay /\ ~ game.game_over /\ game.current_question_num <= LastIndex)
        => (Reloaded.ok /\ SameSession(Reloaded.game, game))

\* A finished session that was loaded again: the loop is not entered
\* (pc = "loop" with game_over) or has just been left without a question.
LoadedOver ==
    game.game_over /\ (pc = "loop" \/ (pc = "end" /\ op = "over"))

\* The session in memory was started with a new game during this run: the
\* sessions on disk at the start are older than the first second of the run.
\* A finished session that was loaded again is left out, its question number
\* being recomputed from its money by load_session.
StartedFresh ==
    game # NoGame /\ game.timestamp >= Timestamp(ClockStart) /\ ~ LoadedOver

\* The last record is that of an incorrect answer, which ends the game.
EndedOnIncorrect(g) ==
    /\ g.game_over
    /\ g.questions_asked # << >>
    /\ LastRecord(g).user_answer # LastRecord(g).correct_answer

ConsecutivelyNumbered(g) ==
    LET h == g.questions_asked IN
    /\ \A i \in 1..Len(h) : h[i].question_num = i
    /\ \A i \in 1..(Len(h) - 1) :
           /\ h[i].user_answer = h[i].correct_answer
           /\ h[i].amount_won = Ladder(i)
    /\ Len(h) = g.current_question_num + (IF EndedOnIncorrect(g) THEN 1 ELSE 0)

\* C22: in every state of a session started fresh the i-th history record has
\* question_num = i, every record but possibly the last is that of a correct
\* answer with amount_won = MONEY_LADDER[question_num], and the number of
\* records is current_question_num, plus one if the game ended on an
\* incorrect answer.
C22_HistoryIsConsecutivelyNumbered ==
    StartedFresh => ConsecutivelyNumbered(game)

\* The append-only half of C22: a step that keeps the session in memory keeps
\* every record it had.
HistoryIsAppendOnly ==
    [][(game # NoGame /\ game'.session_file = game.session_file
            /\ op' \notin { "new", "load" })
          => /\ Len(game'.questions_asked) >= Len(game.questions_asked)
             /\ SubSeq(game'.questions_asked, 1, Len(game.questions_asked))
                    = game.questions_asked]_vars

\* C23: in every state the question text of every history record is in
\* used_questions: no operation removes the text of an answered question
\* from the anti-repetition set.
C23_AnsweredQuestionsStayUsed ==
    HistoryQuestions(game.questions_asked) \subseteq game.used_questions

\* C23 as the code has it: in every state the question text of every history
\* record is in used_questions unless it is a text of the fallback bank,
\* which the bank's wrap-around unmarks, or the placeholder recorded for a
\* question that came without a text.
C23_AnsweredGeneratedQuestionsStayUsed ==
    (HistoryQuestions(game.questions_asked)
         \ (fallback_question_texts \cup { UnknownQuestion }))
        \subseteq game.used_questions

\* The bank has wrapped around in a session whose history holds bank
\* questions and a generated one: the bank texts of the history are unmarked,
\* but for the one just chosen, and the generated text is still marked.
C23_Witness ==
    /\ op = "generate" /\ pc = "ask"
    /\ question_data.question.val \in fallback_question_texts
    /\ \E t \in HistoryQuestions(game.questions_asked) :
           t \in fallback_question_texts /\ t \notin game.used_questions
    /\ \E t \in HistoryQuestions(game.questions_asked) :
           t \notin fallback_question_texts /\ t \in game.used_questions

\* C24: when process_answer hits an internal error (its catch-all handler
\* runs and it returns False without ending the game), the session is as it
\* was before the call: current_question_num, current_money, game_over and
\* the history are unchanged.
C24_FailedAnswerLeavesSession ==
    [][(AnswerStep /\ op' = "answer_error")
          => /\ game'.current_question_num = game.current_question_num
             /\ game'.current_money = game.current_money
             /\ game'.game_over = game.game_over
             /\ game'.questions_asked = game.questions_asked]_vars

\* What does hold of a failed call: it returns False, does not end the game
\* and leaves the history as it was.
FailedAnswerKeepsHistory ==
    [][(AnswerStep /\ op' = "answer_error")
          => /\ ret' = FALSE
             /\ game'.game_over = game.game_over
             /\ game'.questions_asked = game.questions_asked]_vars

\* The step keeps the session that is in memory: no new game is started, no
\* file is loaded and main() is not left.
KeepsSession ==
    game # NoGame /\ game' # NoGame /\ op' \notin { "new", "load" }

\* C25: once game_over is true for a session (after an incorrect answer,
\* EXIT or cash-out, or because a game-over record was loaded), the game loop
\* generates no question and calls process_answer no more, and
\* current_money, current_question_num and the history of the session do
\* not change again.
C25_GameOverIsAbsorbing ==
    [][game.game_over
          => /\ op' \notin { "generate", "answer", "answer_error", "exit", "cashout" }
             /\ pc' \notin { "retry", "ask", "cont" }
             /\ KeepsSession
                    => /\ game'.game_over
                       /\ game'.current_money = game.current_money
                       /\ game'.current_question_num = game.current_question_num
                       /\ game'.questions_asked = game.questions_asked]_vars

\* A session that ended on an incorrect answer has been saved and main() has
\* left the loop with it.
C25_Witness ==
    /\ pc = "end" /\ op \in { "save", "save_error" }
    /\ EndedOnIncorrect(game)

\* The other ways to a terminal state: EXIT, a cash-out, and a loaded
\* game-over record.
OverByExit == pc = "end" /\ game.game_over /\ user_input = << "E", "X", "I", "T" >>
OverByCashOut == pc = "end" /\ game.game_over /\ op = "cashout"
OverByLoad == pc = "end" /\ game.game_over /\ op = "over"

====
